---- MODULE Spec2Model ----
(***************************************************************************)
(* calc-parser: `evaluate` of src/main.rs as a state machine.              *)
(*                                                                         *)
(* The expression is a sequence of one-character strings.  The top-level   *)
(* call of `parse` is the state machine: one action per arm of its match   *)
(* on iter.peek() (digit, operator letter, group-open marker, any other    *)
(* character, end of input).  The helpers parse_number, parse_group and    *)
(* the recursive evaluate of a group's inner text are operators, computed  *)
(* the way the code computes them.                                         *)
(*                                                                         *)
(* Numbers: an f64 is held as a sign, a numerator and a denominator in     *)
(* lowest terms.  The sign is kept apart from the magnitude because f64    *)
(* has a negative zero, which `{v}` prints as "-0".  Sums, differences and *)
(* products of the small integers reachable here are exact in f64; a       *)
(* quotient whose reduced denominator is no power of two is rounded by     *)
(* f64 and is held here by the exact quotient it approximates (see         *)
(* Representable).                                                         *)
(***************************************************************************)
EXTENDS Integers, Sequences, FiniteSets, TLC

(***************************************************************************)
(* Bounds of the model.                                                    *)
(***************************************************************************)
\* every text over Alphabet of at most MaxLen characters is an input
MaxLen == 4
\* every well-formed expression (literals, operators, balanced groups) of at
\* most MaxExprLen characters with the literals of ExprDigits is an input
MaxExprLen == 9
\* every text over GroupAlphabet of at most MaxGroupLen characters is an input
MaxGroupLen == 6

(***************************************************************************)
(* Characters.                                                             *)
(***************************************************************************)
DigitChars == {"0", "1", "2", "3", "4", "5", "6", "7", "8", "9"}

OperatorChars == {"a", "b", "c", "d"}

\* char::to_digit(10)
to_digit(c) ==
    CASE c = "0" -> 0 [] c = "1" -> 1 [] c = "2" -> 2 [] c = "3" -> 3
      [] c = "4" -> 4 [] c = "5" -> 5 [] c = "6" -> 6 [] c = "7" -> 7
      [] c = "8" -> 8 [] c = "9" -> 9

(***************************************************************************)
(* f64 values.                                                             *)
(***************************************************************************)
RECURSIVE Gcd(_, _)
Gcd(m, n) == IF n = 0 THEN m ELSE Gcd(n, m % n)

\* the f64 of sign neg and magnitude n/d
F64(neg, n, d) ==
    LET g == Gcd(n, d)
    IN  [neg |-> neg, num |-> n \div g, den |-> d \div g]

FromInt(i) == IF i < 0 THEN F64(TRUE, -i, 1) ELSE F64(FALSE, i, 1)

PosZero == F64(FALSE, 0, 1)

NegZero == F64(TRUE, 0, 1)

\* x == 0. (true of both zeros)
IsZero(x) == x.num = 0

Signed(x) == IF x.neg THEN -x.num ELSE x.num

\* a + b: an exact zero sum is +0, except (-0) + (-0) = -0
FAdd(x, y) ==
    LET n == Signed(x) * y.den + Signed(y) * x.den
        d == x.den * y.den
    IN  IF n = 0
        THEN F64(IsZero(x) /\ IsZero(y) /\ x.neg /\ y.neg, 0, 1)
        ELSE IF n < 0 THEN F64(TRUE, -n, d) ELSE F64(FALSE, n, d)

FNeg(x) == [x EXCEPT !.neg = ~x.neg]

\* a - b
FSub(x, y) == FAdd(x, FNeg(y))

\* a * b: the sign is the exclusive or of the signs, also for a zero product
FMul(x, y) == F64(x.neg # y.neg, x.num * y.num, x.den * y.den)

\* a / b for b # 0
FDiv(x, y) == F64(x.neg # y.neg, x.num * y.den, x.den * y.num)

RECURSIVE IsPowerOfTwo(_)
IsPowerOfTwo(n) ==
    IF n = 1 THEN TRUE
    ELSE IF n % 2 = 1 THEN FALSE ELSE IsPowerOfTwo(n \div 2)

\* the values f64 holds exactly (magnitudes here are far below 2^53)
Representable(x) == IsPowerOfTwo(x.den)

(***************************************************************************)
(* Results and options.                                                    *)
(***************************************************************************)
ErrorKinds == {"DivisionByZero", "InvalidCharacter", "InvalidBlock", "InvalidInput"}

Ok(v) == [kind |-> "Ok", val |-> v, err |-> "None"]

Err(e) == [kind |-> "Err", val |-> PosZero, err |-> e]

\* no result yet: the top-level parse is still running
Running == [kind |-> "Running", val |-> PosZero, err |-> "None"]

\* Option<f64>: None is the empty sequence, Some(v) the sequence <<v>>
None == <<>>

Some(v) == <<v>>

IsSome(o) == o # <<>>

Unwrap(o) == o[1]

\* Option<Operator>: "None" or the name of the variant
Operators == {"Add", "Subtract", "Multiply", "Divide"}

(***************************************************************************)
(* operate                                                                 *)
(***************************************************************************)
\* operate with the operands of Subtract exchanged
operate_SubtractSwapped(op, a, b) ==
    CASE op = "Add" -> Ok(FAdd(a, b))
      [] op = "Subtract" -> Ok(FSub(b, a))
      [] op = "Multiply" -> Ok(FMul(a, b))
      [] op = "Divide" /\ ~IsZero(b) -> Ok(FDiv(a, b))
      [] op = "Divide" /\ IsZero(b) -> Err("DivisionByZero")

\* operate without the guard on Divide: a zero divisor yields the dividend
operate_NoZeroGuard(op, a, b) ==
    CASE op = "Add" -> Ok(FAdd(a, b))
      [] op = "Subtract" -> Ok(FSub(a, b))
      [] op = "Multiply" -> Ok(FMul(a, b))
      [] op = "Divide" /\ ~IsZero(b) -> Ok(FDiv(a, b))
      [] op = "Divide" /\ IsZero(b) -> Ok(a)

\* operate with Divide as the integer quotient, the fraction cut off
operate_TruncatingDivide(op, a, b) ==
    CASE op = "Add" -> Ok(FAdd(a, b))
      [] op = "Subtract" -> Ok(FSub(a, b))
      [] op = "Multiply" -> Ok(FMul(a, b))
      [] op = "Divide" /\ ~IsZero(b) ->
             Ok(F64(a.neg # b.neg, (a.num * b.den) \div (a.den * b.num), 1))
      [] op = "Divide" /\ IsZero(b) -> Err("DivisionByZero")

operate(op, a, b) ==
    CASE op = "Add" -> Ok(FAdd(a, b))
      [] op = "Subtract" -> Ok(FSub(a, b))
      [] op = "Multiply" -> Ok(FMul(a, b))
      [] op = "Divide" /\ ~IsZero(b) -> Ok(FDiv(a, b))
      [] op = "Divide" /\ IsZero(b) -> Err("DivisionByZero")

(***************************************************************************)
(* The cursor: `it` is the index of the next unconsumed character of s;    *)
(* Len(s) + 1 when the iterator is exhausted.                              *)
(***************************************************************************)
AtEnd(s, it) == it > Len(s)

\* parse_number that adds each digit without shifting the number
RECURSIVE parse_number_NoShift(_, _, _)
parse_number_NoShift(s, it, number) ==
    IF ~AtEnd(s, it) /\ s[it] \in DigitChars
    THEN parse_number_NoShift(s, it + 1, FAdd(number, FromInt(to_digit(s[it]))))
    ELSE [number |-> number, it |-> it]

\* parse_number that takes one digit only
parse_number_OneDigit(s, it, number) ==
    [number |-> FAdd(FMul(number, FromInt(10)), FromInt(to_digit(s[it]))),
     it |-> it + 1]

\* parse_number: returns the number and the cursor after the digit run
RECURSIVE parse_number(_, _, _)
parse_number(s, it, number) ==
    IF ~AtEnd(s, it) /\ s[it] \in DigitChars
    THEN parse_number(s, it + 1,
                      FAdd(FMul(number, FromInt(10)), FromInt(to_digit(s[it]))))
    ELSE [number |-> number, it |-> it]

\* parse_group that takes the end of the input for the missing close marker
RECURSIVE parse_group_LenientEnd(_, _, _, _)
parse_group_LenientEnd(s, it, count, inner) ==
    IF AtEnd(s, it)
    THEN [ok |-> TRUE, inner |-> inner, it |-> it]
    ELSE CASE s[it] = "e" -> parse_group_LenientEnd(s, it + 1, count + 1, inner)
           [] s[it] = "f" /\ count = 1 -> [ok |-> TRUE, inner |-> inner, it |-> it + 1]
           [] s[it] = "f" /\ count # 1 -> parse_group_LenientEnd(s, it + 1, count - 1, inner)
           [] OTHER -> parse_group_LenientEnd(s, it + 1, count, Append(inner, s[it]))

\* one call of parse_group, the match on iter.next(): it returns (ret, with ok
\* and inner) or calls itself with the cursor, count and inner given
GroupReturn(ok, it, count, inner) ==
    [ret |-> TRUE, ok |-> ok, it |-> it, count |-> count, inner |-> inner]

GroupRecurse(it, count, inner) ==
    [ret |-> FALSE, ok |-> FALSE, it |-> it, count |-> count, inner |-> inner]

\* the match that appends a close marker that is not the final one
group_match_AppendsInnerCloser(s, it, count, inner) ==
    IF AtEnd(s, it)
    THEN GroupReturn(FALSE, it, count, inner)
    ELSE CASE s[it] = "e" -> GroupRecurse(it + 1, count + 1, inner)
           [] s[it] = "f" /\ count = 1 -> GroupReturn(TRUE, it + 1, count, inner)
           [] s[it] = "f" /\ count # 1 ->
                  GroupRecurse(it + 1, count - 1, Append(inner, s[it]))
           [] OTHER -> GroupRecurse(it + 1, count, Append(inner, s[it]))

\* the match that appends the markers of inner groups to the inner text
group_match_KeepsMarkers(s, it, count, inner) ==
    IF AtEnd(s, it)
    THEN GroupReturn(FALSE, it, count, inner)
    ELSE CASE s[it] = "e" -> GroupRecurse(it + 1, count + 1, Append(inner, s[it]))
           [] s[it] = "f" /\ count = 1 -> GroupReturn(TRUE, it + 1, count, inner)
           [] s[it] = "f" /\ count # 1 ->
                  GroupRecurse(it + 1, count - 1, Append(inner, s[it]))
           [] OTHER -> GroupRecurse(it + 1, count, Append(inner, s[it]))

\* the match that returns at the first close marker, whatever the count
group_match_ClosesAtFirstF(s, it, count, inner) ==
    IF AtEnd(s, it)
    THEN GroupReturn(FALSE, it, count, inner)
    ELSE CASE s[it] = "e" -> GroupRecurse(it + 1, count + 1, inner)
           [] s[it] = "f" -> GroupReturn(TRUE, it + 1, count, inner)
           [] OTHER -> GroupRecurse(it + 1, count, Append(inner, s[it]))

group_match(s, it, count, inner) ==
    IF AtEnd(s, it)
    THEN GroupReturn(FALSE, it, count, inner)
    ELSE CASE s[it] = "e" -> GroupRecurse(it + 1, count + 1, inner)
           [] s[it] = "f" /\ count = 1 -> GroupReturn(TRUE, it + 1, count, inner)
           [] s[it] = "f" /\ count # 1 -> GroupRecurse(it + 1, count - 1, inner)
           [] OTHER -> GroupRecurse(it + 1, count, Append(inner, s[it]))

\* parse_group: returns Ok(inner) or Err(InvalidBlock), and the cursor
RECURSIVE parse_group(_, _, _, _)
parse_group(s, it, count, inner) ==
    LET r == group_match(s, it, count, inner)
    IN  IF r.ret THEN [ok |-> r.ok, inner |-> r.inner, it |-> r.it]
        ELSE parse_group(s, r.it, r.count, r.inner)

\* the arguments (cursor, count, inner) of the successive calls of
\* parse_group, from the call with the arguments given to the call that returns
RECURSIVE parse_group_calls(_, _, _, _)
parse_group_calls(s, it, count, inner) ==
    LET r == group_match(s, it, count, inner)
    IN  <<[it |-> it, count |-> count, inner |-> inner]>>
            \o (IF r.ret THEN <<>> ELSE parse_group_calls(s, r.it, r.count, r.inner))

(***************************************************************************)
(* parse: one call of `parse` matches on iter.peek() and either returns or *)
(* calls itself with new operands and operator.  Each arm is an operator   *)
(* giving the outcome of that one call: ret says whether the call returned *)
(* (with result), and otherwise it, operands, operator are the arguments   *)
(* of the self-call.  A call that returns leaves the arguments as they     *)
(* were when it returned.                                                  *)
(***************************************************************************)
Return(res, it, operands, operator) ==
    [ret |-> TRUE, result |-> res, it |-> it, operands |-> operands,
     operator |-> operator]

Recurse(it, operands, operator) ==
    [ret |-> FALSE, result |-> Running, it |-> it, operands |-> operands,
     operator |-> operator]

\* the digit arm that stores the first literal in the second slot
DigitArm_FillsSecondFirst(s, it, operands, operator) ==
    LET n == parse_number(s, it, PosZero)
    IN  IF operator # "None" /\ IsSome(operands[1]) /\ IsSome(operands[2])
        THEN LET r == operate(operator, Unwrap(operands[1]), Unwrap(operands[2]))
             IN  IF r.kind = "Err"
                 THEN Return(r, n.it, operands, operator)
                 ELSE Recurse(n.it, <<Some(r.val), Some(n.number)>>, operator)
        ELSE IF IsSome(operands[1]) /\ ~IsSome(operands[2])
        THEN Recurse(n.it, <<operands[1], Some(n.number)>>, operator)
        ELSE Recurse(n.it, <<None, Some(n.number)>>, operator)

\* the digit arm that never applies the pending operator: with both slots
\* full the literal overwrites the second slot
DigitArm_OverwritesSecond(s, it, operands, operator) ==
    LET n == parse_number(s, it, PosZero)
    IN  IF IsSome(operands[1])
        THEN Recurse(n.it, <<operands[1], Some(n.number)>>, operator)
        ELSE Recurse(n.it, <<Some(n.number), None>>, operator)

\* '0'..='9' => ...
DigitArm(s, it, operands, operator) ==
    LET n == parse_number(s, it, PosZero)
    IN  IF operator # "None" /\ IsSome(operands[1]) /\ IsSome(operands[2])
        THEN LET r == operate(operator, Unwrap(operands[1]), Unwrap(operands[2]))
             IN  IF r.kind = "Err"
                 THEN Return(r, n.it, operands, operator)
                 ELSE Recurse(n.it, <<Some(r.val), Some(n.number)>>, operator)
        ELSE IF IsSome(operands[1]) /\ ~IsSome(operands[2])
        THEN Recurse(n.it, <<operands[1], Some(n.number)>>, operator)
        ELSE Recurse(n.it, <<Some(n.number), None>>, operator)

\* the match on iter.next().unwrap() of the 'a'..='d' arm
next_op(c) ==
    CASE c = "a" -> "Add"
      [] c = "b" -> "Subtract"
      [] c = "c" -> "Multiply"
      [] c = "d" -> "Divide"
      [] OTHER -> "None"

\* the operator arm that, when it applies the pending operator, only peeks
\* at the letter and leaves it to the next call
OperatorArm_AppliesWithoutConsuming(s, it, operands, operator) ==
    IF operator # "None" /\ IsSome(operands[1]) /\ IsSome(operands[2])
    THEN LET r == operate(operator, Unwrap(operands[1]), Unwrap(operands[2]))
         IN  IF r.kind = "Err"
             THEN Return(r, it + 1, operands, operator)
             ELSE Recurse(it, <<Some(r.val), None>>, "None")
    ELSE Recurse(it + 1, operands, next_op(s[it]))

\* the operator arm in which a letter does not replace an operator that is
\* still pending
OperatorArm_KeepsFirstOperator(s, it, operands, operator) ==
    IF operator # "None" /\ IsSome(operands[1]) /\ IsSome(operands[2])
    THEN LET r == operate(operator, Unwrap(operands[1]), Unwrap(operands[2]))
         IN  IF r.kind = "Err"
             THEN Return(r, it + 1, operands, operator)
             ELSE Recurse(it + 1, <<Some(r.val), None>>, next_op(s[it]))
    ELSE Recurse(it + 1, operands,
                 IF operator # "None" THEN operator ELSE next_op(s[it]))

\* 'a'..='d' => ...
OperatorArm(s, it, operands, operator) ==
    IF operator # "None" /\ IsSome(operands[1]) /\ IsSome(operands[2])
    THEN LET r == operate(operator, Unwrap(operands[1]), Unwrap(operands[2]))
         IN  IF r.kind = "Err"
             THEN Return(r, it + 1, operands, operator)
             ELSE Recurse(it + 1, <<Some(r.val), None>>, next_op(s[it]))
    ELSE Recurse(it + 1, operands, next_op(s[it]))

RECURSIVE evaluate(_)

\* the group arm taking an empty group for the value 0
GroupArm_EmptyGroupIsZero(s, it, operands, operator) ==
    LET g == parse_group(s, it + 1, 1, <<>>)
    IN  IF ~g.ok
        THEN Return(Err("InvalidBlock"), g.it, operands, operator)
        ELSE LET new_operand == IF g.inner = <<>> THEN Ok(PosZero)
                                ELSE evaluate(g.inner)
             IN  IF new_operand.kind = "Err"
                 THEN Return(new_operand, g.it, operands, operator)
                 ELSE IF IsSome(operands[1])
                 THEN Recurse(g.it, <<operands[1], Some(new_operand.val)>>, operator)
                 ELSE Recurse(g.it, <<Some(new_operand.val), None>>, operator)

\* the group arm reducing as the digit arm does: with an operator pending
\* and both slots full it applies the operator before storing the value
GroupArm_AppliesPending(s, it, operands, operator) ==
    LET g == parse_group(s, it + 1, 1, <<>>)
    IN  IF ~g.ok
        THEN Return(Err("InvalidBlock"), g.it, operands, operator)
        ELSE LET new_operand == evaluate(g.inner)
             IN  IF new_operand.kind = "Err"
                 THEN Return(new_operand, g.it, operands, operator)
                 ELSE IF operator # "None" /\ IsSome(operands[1]) /\ IsSome(operands[2])
                 THEN LET r == operate(operator, Unwrap(operands[1]),
                                       Unwrap(operands[2]))
                      IN  IF r.kind = "Err"
                          THEN Return(r, g.it, operands, operator)
                          ELSE Recurse(g.it, <<Some(r.val), Some(new_operand.val)>>,
                                       operator)
                 ELSE IF IsSome(operands[1])
                 THEN Recurse(g.it, <<operands[1], Some(new_operand.val)>>, operator)
                 ELSE Recurse(g.it, <<Some(new_operand.val), None>>, operator)

\* 'e' => ...
GroupArm(s, it, operands, operator) ==
    LET g == parse_group(s, it + 1, 1, <<>>)
    IN  IF ~g.ok
        THEN Return(Err("InvalidBlock"), g.it, operands, operator)
        ELSE LET new_operand == evaluate(g.inner)
             IN  IF new_operand.kind = "Err"
                 THEN Return(new_operand, g.it, operands, operator)
                 ELSE IF IsSome(operands[1])
                 THEN Recurse(g.it, <<operands[1], Some(new_operand.val)>>, operator)
                 ELSE Recurse(g.it, <<Some(new_operand.val), None>>, operator)

\* the last arm skipping a close marker that closes nothing
OtherArm_SkipsCloser(s, it, operands, operator) ==
    IF s[it] = "f"
    THEN Recurse(it + 1, operands, operator)
    ELSE Return(Err("InvalidCharacter"), it, operands, operator)

\* _ => Err(EvalError::InvalidCharacter)
OtherArm(s, it, operands, operator) ==
    Return(Err("InvalidCharacter"), it, operands, operator)

\* the end arm refusing a pending operator that has no right operand
EndArm_DanglingOperator(s, it, operands, operator) ==
    IF operator # "None" /\ IsSome(operands[1]) /\ IsSome(operands[2])
    THEN Return(operate(operator, Unwrap(operands[1]), Unwrap(operands[2])),
                it, operands, operator)
    ELSE IF IsSome(operands[1]) /\ operator = "None"
    THEN Return(Ok(Unwrap(operands[1])), it, operands, operator)
    ELSE Return(Err("InvalidInput"), it, operands, operator)

\* the end arm returning the latest operand when no operator is pending
EndArm_ReturnsSecond(s, it, operands, operator) ==
    IF operator # "None" /\ IsSome(operands[1]) /\ IsSome(operands[2])
    THEN Return(operate(operator, Unwrap(operands[1]), Unwrap(operands[2])),
                it, operands, operator)
    ELSE IF IsSome(operands[2])
    THEN Return(Ok(Unwrap(operands[2])), it, operands, operator)
    ELSE IF IsSome(operands[1])
    THEN Return(Ok(Unwrap(operands[1])), it, operands, operator)
    ELSE Return(Err("InvalidInput"), it, operands, operator)

\* None => Ok(...)
EndArm(s, it, operands, operator) ==
    IF operator # "None" /\ IsSome(operands[1]) /\ IsSome(operands[2])
    THEN Return(operate(operator, Unwrap(operands[1]), Unwrap(operands[2])),
                it, operands, operator)
    ELSE IF IsSome(operands[1])
    THEN Return(Ok(Unwrap(operands[1])), it, operands, operator)
    ELSE Return(Err("InvalidInput"), it, operands, operator)

\* match iter.peek() { ... }
ParseStep(s, it, operands, operator) ==
    IF AtEnd(s, it) THEN EndArm(s, it, operands, operator)
    ELSE IF s[it] \in DigitChars THEN DigitArm(s, it, operands, operator)
    ELSE IF s[it] \in OperatorChars THEN OperatorArm(s, it, operands, operator)
    ELSE IF s[it] = "e" THEN GroupArm(s, it, operands, operator)
    ELSE OtherArm(s, it, operands, operator)

RECURSIVE parse(_, _, _, _)
parse(s, it, operands, operator) ==
    LET r == ParseStep(s, it, operands, operator)
    IN  IF r.ret THEN r.result ELSE parse(s, r.it, r.operands, r.operator)

\* Ok(parse(&mut expr.chars().peekable(), (None, None), None)?)
evaluate(s) == parse(s, 1, <<None, None>>, "None")

(***************************************************************************)
(* The number of calls of `evaluate` that are on the call stack at once:   *)
(* evaluate calls parse, and the 'e' arm of parse calls evaluate on the    *)
(* inner text of a group that parse_group returned.                        *)
(***************************************************************************)
RECURSIVE evaluate_depth(_)

\* the deepest nesting of evaluate calls below one call of parse and the
\* self-calls it makes
RECURSIVE parse_depth(_, _, _, _)
parse_depth(s, it, operands, operator) ==
    LET r    == ParseStep(s, it, operands, operator)
        g    == parse_group(s, it + 1, 1, <<>>)
        here == IF ~AtEnd(s, it) /\ s[it] = "e" /\ g.ok
                THEN evaluate_depth(g.inner) ELSE 0
        rest == IF r.ret THEN 0 ELSE parse_depth(s, r.it, r.operands, r.operator)
    IN  IF here > rest THEN here ELSE rest

evaluate_depth(s) == 1 + parse_depth(s, 1, <<None, None>>, "None")

(***************************************************************************)
(* main: println!("Result: {v}").  Display of an f64 that f64 holds        *)
(* exactly: "-" for a set sign bit (also of -0), the integer digits, and   *)
(* for a value with a fractional part "." and the fraction digits; never   *)
(* an exponent.                                                            *)
(***************************************************************************)
DigitChar(d) ==
    CASE d = 0 -> "0" [] d = 1 -> "1" [] d = 2 -> "2" [] d = 3 -> "3"
      [] d = 4 -> "4" [] d = 5 -> "5" [] d = 6 -> "6" [] d = 7 -> "7"
      [] d = 8 -> "8" [] d = 9 -> "9"

RECURSIVE DisplayDigits(_)
DisplayDigits(n) ==
    IF n < 10 THEN <<DigitChar(n)>>
    ELSE Append(DisplayDigits(n \div 10), DigitChar(n % 10))

\* the digits of r/d < 1 after the point, d a power of two
RECURSIVE DisplayFraction(_, _)
DisplayFraction(r, d) ==
    IF r = 0 THEN <<>>
    ELSE <<DigitChar((r * 10) \div d)>> \o DisplayFraction((r * 10) % d, d)

Display(v) ==
    (IF v.neg THEN <<"-">> ELSE <<>>)
        \o DisplayDigits(v.num \div v.den)
        \o (IF v.num % v.den = 0 THEN <<>>
            ELSE <<".">> \o DisplayFraction(v.num % v.den, v.den))

(***************************************************************************)
(* The inputs.                                                             *)
(***************************************************************************)
\* the characters of the arbitrary texts: two digits, the operator letters,
\* the group markers and a character outside the grammar
Alphabet == {"0", "4", "a", "b", "c", "d", "e", "f", "z"}

Texts == UNION {[1..k -> Alphabet] : k \in 0..MaxLen}

\* the characters of the well-formed expressions: one-digit literals, the
\* operator letters and balanced groups
ExprDigits == {"0", "4"}

\* the operands of exactly n characters, T[k] being the expressions of
\* exactly k characters for k < n
OperandsOfLen(n, T) ==
    IF n = 1 THEN {<<c>> : c \in ExprDigits}
    ELSE IF n >= 3 THEN {<<"e">> \o x \o <<"f">> : x \in T[n - 2]}
    ELSE {}

\* operand (op operand)* of exactly n characters
ExprsOfLen(n, T) ==
    OperandsOfLen(n, T) \cup
    UNION {{x \o <<o>> \o y : x \in T[i], o \in OperatorChars,
                              y \in OperandsOfLen(n - 1 - i, T)} : i \in 1..(n - 2)}

RECURSIVE ExprTable(_)
ExprTable(n) ==
    IF n = 0 THEN <<>>
    ELSE LET T == ExprTable(n - 1) IN Append(T, ExprsOfLen(n, T))

Exprs == LET T == ExprTable(MaxExprLen) IN UNION {T[k] : k \in 1..MaxExprLen}

\* the characters of the texts with groups: two digits, Divide and the group
\* markers, in any order (operands side by side, groups without operator)
GroupAlphabet == {"0", "4", "d", "e", "f"}

GroupTexts == UNION {[1..k -> GroupAlphabet] : k \in 0..MaxGroupLen}

Inputs == Texts \cup Exprs \cup GroupTexts

(***************************************************************************)
(* The state machine: the top-level call chain of parse.                   *)
(***************************************************************************)
VARIABLES
    expr,       \* the argument of evaluate
    iter,       \* the cursor: index of the next unconsumed character
    operands,   \* the (first, second) operand slots
    operator,   \* the pending operator
    result      \* Running, or what evaluate returned

vars == <<expr, iter, operands, operator, result>>

Init ==
    /\ expr \in Inputs
    /\ iter = 1
    /\ operands = <<None, None>>
    /\ operator = "None"
    /\ result = Running

Take(r) ==
    /\ iter' = r.it
    /\ operands' = r.operands
    /\ operator' = r.operator
    /\ result' = r.result
    /\ UNCHANGED expr

Peek == IF AtEnd(expr, iter) THEN "" ELSE expr[iter]

Digit ==
    /\ result = Running
    /\ Peek \in DigitChars
    /\ Take(DigitArm(expr, iter, operands, operator))

OperatorLetter ==
    /\ result = Running
    /\ Peek \in OperatorChars
    /\ Take(OperatorArm(expr, iter, operands, operator))

Group ==
    /\ result = Running
    /\ Peek = "e"
    /\ Take(GroupArm(expr, iter, operands, operator))

OtherCharacter ==
    /\ result = Running
    /\ ~AtEnd(expr, iter)
    /\ Peek \notin DigitChars \cup OperatorChars \cup {"e"}
    /\ Take(OtherArm(expr, iter, operands, operator))

EndOfInput ==
    /\ result = Running
    /\ AtEnd(expr, iter)
    /\ Take(EndArm(expr, iter, operands, operator))

Next ==
    \/ Digit
    \/ OperatorLetter
    \/ Group
    \/ OtherCharacter
    \/ EndOfInput

Spec == Init /\ [][Next]_vars

(***************************************************************************)
(* Reference semantics of the notation, independent of the driver: an      *)
(* expression is read from its right end, operand by operand, every group  *)
(* being matched to its own open marker and evaluated on its own.          *)
(***************************************************************************)
Range(s) == {s[i] : i \in 1..Len(s)}

Count(s, c) == Cardinality({i \in 1..Len(s) : s[i] = c})

AllDigits(s) == Len(s) > 0 /\ Range(s) \subseteq DigitChars

RECURSIVE Pow10(_)
Pow10(n) == IF n = 0 THEN 1 ELSE 10 * Pow10(n - 1)

\* the base-10 value of a digit run: the sum of digit * 10^position
RECURSIVE PositionalSum(_, _)
PositionalSum(s, i) ==
    IF i > Len(s) THEN 0
    ELSE to_digit(s[i]) * Pow10(Len(s) - i) + PositionalSum(s, i + 1)

Decimal(s) == FromInt(PositionalSum(s, 1))

\* index of the e that the f at the end of s closes, 0 if there is none:
\* scanning leftwards from position i with `open` closers still to match
RECURSIVE MatchOpen(_, _, _)
MatchOpen(s, i, open) ==
    IF i < 1 THEN 0
    ELSE IF s[i] = "f" THEN MatchOpen(s, i - 1, open + 1)
    ELSE IF s[i] = "e" THEN (IF open = 1 THEN i ELSE MatchOpen(s, i - 1, open - 1))
    ELSE MatchOpen(s, i - 1, open)

\* index of the first digit of the digit run that ends at position i
RECURSIVE RunStart(_, _)
RunStart(s, i) ==
    IF i > 1 /\ s[i - 1] \in DigitChars THEN RunStart(s, i - 1) ELSE i

\* index at which the last operand of s starts, 0 if s does not end in one
LastOperandStart(s) ==
    IF Len(s) = 0 THEN 0
    ELSE IF s[Len(s)] \in DigitChars THEN RunStart(s, Len(s))
    ELSE IF s[Len(s)] = "f" THEN MatchOpen(s, Len(s) - 1, 1)
    ELSE 0

\* s is operand (op operand)*, an operand being a digit run or e expr f
RECURSIVE IsExpr(_)
IsExpr(s) ==
    LET j == LastOperandStart(s)
    IN  /\ j >= 1
        /\ \/ s[Len(s)] \in DigitChars
           \/ IsExpr(SubSeq(s, j + 1, Len(s) - 1))
        /\ \/ j = 1
           \/ /\ j >= 3
              /\ s[j - 1] \in OperatorChars
              /\ IsExpr(SubSeq(s, 1, j - 2))

\* the operation an operator letter stands for
Apply(c, x, y) ==
    CASE c = "a" -> Ok(FAdd(x, y))
      [] c = "b" -> Ok(FSub(x, y))
      [] c = "c" -> Ok(FMul(x, y))
      [] c = "d" -> IF IsZero(y) THEN Err("DivisionByZero") ELSE Ok(FDiv(x, y))

\* the value of an expression s (IsExpr(s)): the left-to-right fold of its
\* operands, or DivisionByZero if some Divide gets a zero right operand
RECURSIVE RefEval(_)
RefEval(s) ==
    LET j   == LastOperandStart(s)
        rhs == IF s[Len(s)] \in DigitChars
               THEN Ok(Decimal(SubSeq(s, j, Len(s))))
               ELSE RefEval(SubSeq(s, j + 1, Len(s) - 1))
    IN  IF j = 1 THEN rhs
        ELSE LET lhs == RefEval(SubSeq(s, 1, j - 2))
             IN  IF lhs.kind = "Err" THEN lhs
                 ELSE IF rhs.kind = "Err" THEN rhs
                 ELSE Apply(s[j - 1], lhs.val, rhs.val)

\* the deepest nesting of groups in s
RECURSIVE NestDepth(_, _, _)
NestDepth(s, i, open) ==
    IF i > Len(s) THEN 0
    ELSE IF s[i] = "e"
    THEN LET d == NestDepth(s, i + 1, open + 1)
         IN  IF d > open + 1 THEN d ELSE open + 1
    ELSE IF s[i] = "f" THEN NestDepth(s, i + 1, open - 1)
    ELSE NestDepth(s, i + 1, open)

IsFlat(s) == IsExpr(s) /\ "e" \notin Range(s)

Returned == result # Running

(***************************************************************************)
(* C1.  An input n0 o1 n1 ... ok nk of digit runs and operator letters in  *)
(* which no Divide gets a zero right operand evaluates to Ok of the strict *)
(* left-to-right fold (((n0 o1 n1) o2 n2) ... ok nk), a = add,             *)
(* b = subtract, c = multiply, d = divide, with no precedence.             *)
(***************************************************************************)
C1_LeftToRightFold ==
    (Returned /\ IsFlat(expr) /\ RefEval(expr).kind = "Ok")
        => result = RefEval(expr)

\* a fold of three operands in which precedence would change the value
C1_Witness ==
    /\ Returned
    /\ expr = <<"4", "b", "0", "c", "4">>
    /\ result = Ok(FromInt(16))

(***************************************************************************)
(* C2.  An input operand (op operand)* whose operands are digit runs or    *)
(* balanced groups nested to any depth evaluates to the left-to-right fold *)
(* in which every group, also a group inside a group at any position,      *)
(* stands for the value of its own inner expression: each f closes the     *)
(* innermost open e.                                                       *)
(***************************************************************************)
C2_NestedGroups ==
    (Returned /\ IsExpr(expr)) => result = RefEval(expr)

(***************************************************************************)
(* C3.  In an input operand (op operand)* whose groups contain no inner    *)
(* group, a Divide whose right operand is zero (a literal 0 or a group of  *)
(* value 0), at top level or inside a group, makes evaluate return         *)
(* Err(DivisionByZero), never a number.                                    *)
(***************************************************************************)
C3_DivisionByZero ==
    (/\ Returned
     /\ IsExpr(expr)
     /\ NestDepth(expr, 1, 0) <= 1
     /\ RefEval(expr) = Err("DivisionByZero"))
        => result = Err("DivisionByZero")

\* the zero divisor is the value of a group, the input has no literal 0
C3_Witness ==
    /\ Returned
    /\ IsExpr(expr)
    /\ NestDepth(expr, 1, 0) = 1
    /\ "0" \notin Range(expr)
    /\ expr[Len(expr)] = "f"
    /\ RefEval(expr) = Err("DivisionByZero")
    /\ result = Err("DivisionByZero")

(***************************************************************************)
(* C4.  When the driver, having processed a prefix without error, consumes *)
(* a group-open marker e and the rest of the input ends before the         *)
(* consumed f outnumber the consumed e, evaluate returns Err(InvalidBlock) *)
(* whatever the characters after the e are.                                *)
(***************************************************************************)
\* no prefix of s from index i on holds more f than e
Unclosed(s, i) ==
    \A k \in i..Len(s) :
        Count(SubSeq(s, i, k), "f") <= Count(SubSeq(s, i, k), "e")

C4_InvalidBlock ==
    [][(result = Running /\ Peek = "e" /\ Unclosed(expr, iter + 1))
           => result' = Err("InvalidBlock")]_vars

\* an unclosed group that holds a division by zero
C4_Witness ==
    /\ result = Err("InvalidBlock")
    /\ Len(expr) = 4
    /\ SubSeq(expr, 1, 2) = <<"e", "4">>
    /\ SubSeq(expr, 3, 4) = <<"d", "0">>

(***************************************************************************)
(* C5.  When the driver, having processed a prefix without error, finds at *)
(* a token position a character that is no digit, none of a, b, c, d and   *)
(* not e, evaluate returns Err(InvalidCharacter): also for an f that       *)
(* closes nothing, and also when a Divide by zero is pending, not applied. *)
(***************************************************************************)
C5_InvalidCharacter ==
    [][(/\ result = Running
        /\ ~AtEnd(expr, iter)
        /\ expr[iter] \notin DigitChars \cup OperatorChars \cup {"e"})
           => result' = Err("InvalidCharacter")]_vars

\* an f with no open group, met while a Divide by zero is pending
C5_Witness ==
    /\ result = Err("InvalidCharacter")
    /\ ~AtEnd(expr, iter)
    /\ expr[iter] = "f"
    /\ operator = "Divide"
    /\ operands[2] = Some(PosZero)

(***************************************************************************)
(* C6.  evaluate returns Err(InvalidInput) for the empty input and for     *)
(* every input of operator letters only; the top-level call itself gives   *)
(* InvalidInput exactly when the input is exhausted while the first        *)
(* operand slot is empty (any other InvalidInput is the one a group's      *)
(* evaluation returned).                                                   *)
(***************************************************************************)
OnlyOperators(s) == Range(s) \subseteq OperatorChars

\* the step evaluates a group whose inner text evaluates to Err(e)
GroupFailsWith(e) ==
    /\ Peek = "e"
    /\ LET g == parse_group(expr, iter + 1, 1, <<>>)
       IN  g.ok /\ evaluate(g.inner) = Err(e)

C6_InvalidInput ==
    /\ []((Returned /\ OnlyOperators(expr)) => result = Err("InvalidInput"))
    /\ [][result = Running =>
            /\ (AtEnd(expr, iter) /\ ~IsSome(operands[1]))
                  => result' = Err("InvalidInput")
            /\ (result' = Err("InvalidInput") /\ ~GroupFailsWith("InvalidInput"))
                  => (AtEnd(expr, iter) /\ ~IsSome(operands[1]))]_vars

\* several operator letters and no operand
C6_Witness ==
    /\ result = Err("InvalidInput")
    /\ Len(expr) >= 2
    /\ OnlyOperators(expr)
    /\ operator # "None"

(***************************************************************************)
(* C7.  If the extraction of a group succeeds with inner text t and        *)
(* evaluate(t) returns Err(E), the enclosing evaluate returns the same     *)
(* Err(E), whatever follows the group: for E = DivisionByZero,             *)
(* InvalidCharacter and InvalidInput (the empty group), and never a        *)
(* number.                                                                 *)
(***************************************************************************)
C7_GroupErrorPropagates ==
    [][\A e \in ErrorKinds :
          (result = Running /\ GroupFailsWith(e)) => result' = Err(e)]_vars

\* the empty group, with more input after it
C7_Witness ==
    /\ result = Err("InvalidInput")
    /\ iter >= 3
    /\ ~AtEnd(expr, iter)
    /\ SubSeq(expr, iter - 2, iter - 1) = <<"e", "f">>

(***************************************************************************)
(* C8.  A non-empty run of decimal digits (leading zeros allowed)          *)
(* evaluates to Ok of its base-10 value: the lexer takes the maximal run   *)
(* of digits as one literal and leaves the first non-digit unconsumed.     *)
(***************************************************************************)
\* index of the first non-digit of s from index i on, Len(s) + 1 if none
RunEnd(s, i) ==
    CHOOSE k \in i..(Len(s) + 1) :
        /\ \A j \in i..(k - 1) : s[j] \in DigitChars
        /\ k > Len(s) \/ s[k] \notin DigitChars

C8_NumberLiteral ==
    /\ []((Returned /\ AllDigits(expr)) => result = Ok(Decimal(expr)))
    /\ [][(result = Running /\ Peek \in DigitChars) =>
            /\ iter' = RunEnd(expr, iter)
            /\ result' = Running =>
                  Some(Decimal(SubSeq(expr, iter, iter' - 1)))
                      \in {operands'[1], operands'[2]}]_vars

\* a literal of several digits with a leading zero
C8_Witness ==
    /\ result = Ok(FromInt(44))
    /\ expr = <<"0", "4", "4">>

(***************************************************************************)
(* C9.  Round trip: if evaluate(x) = Ok(v) and v has no fractional part,   *)
(* the text of v printed as a bare numeric literal evaluates to Ok(v)      *)
(* again.  As stated it fails for every v that prints with a minus sign    *)
(* (a negative v, and -0); it holds for v with a clear sign bit.           *)
(***************************************************************************)
IsIntegral(v) == v.den = 1

\* the claim as stated
C9_RoundTrip ==
    (Returned /\ result.kind = "Ok" /\ IsIntegral(result.val))
        => evaluate(Display(result.val)) = result

\* the claim for values that print without a minus sign
C9_RoundTripUnsigned ==
    (Returned /\ result.kind = "Ok" /\ IsIntegral(result.val) /\ ~result.val.neg)
        => evaluate(Display(result.val)) = result

\* a computed value of several digits is printed and read back
C9_Witness ==
    /\ result.kind = "Ok"
    /\ IsIntegral(result.val)
    /\ ~result.val.neg
    /\ Range(expr) \cap OperatorChars # {}
    /\ Len(Display(result.val)) >= 2
    /\ evaluate(Display(result.val)) = result

(***************************************************************************)
(* C10.  evaluate terminates on every input, with a number or one of the   *)
(* four error kinds: every call of parse that does not return moves the    *)
(* forward-only cursor by at least one character, and the evaluation of a  *)
(* group is called on a text strictly shorter than the enclosing input.    *)
(* Termination is stated by its variant: a call that has not returned has  *)
(* a next step, which either returns or moves the cursor forward, and the  *)
(* cursor never passes the end of the input.                               *)
(***************************************************************************)
C10_Terminates ==
    /\ [](result = Running =>
            LET r == ParseStep(expr, iter, operands, operator)
            IN  \/ r.ret /\ r.result # Running
                \/ ~r.ret /\ r.it > iter)
    /\ [](iter <= Len(expr) + 1)
    /\ [](\/ result.kind \in {"Running", "Ok"}
          \/ result.kind = "Err" /\ result.err \in ErrorKinds)
    /\ [][result' = Running => iter' > iter]_vars
    /\ []((result = Running /\ Peek = "e") =>
            LET g == parse_group(expr, iter + 1, 1, <<>>)
            IN  /\ g.it > iter + 1 \/ ~g.ok
                /\ g.ok => Len(g.inner) < Len(expr))

\* the evaluation of a doubly nested group has returned a number
C10_Witness ==
    /\ result.kind = "Ok"
    /\ AtEnd(expr, iter)
    /\ NestDepth(expr, 1, 0) = 2
    /\ Range(expr) \cap OperatorChars # {}

(***************************************************************************)
(* C11.  Divide with a non-zero right operand yields the true quotient,    *)
(* not a truncated integer quotient: the result of a d b is a/b exactly    *)
(* when a/b is representable, and a fractional result goes unchanged into  *)
(* the later fold steps.  The fold is redone here in whole numbers, as an  *)
(* unreduced numerator and denominator, and compared by cross              *)
(* multiplication.                                                         *)
(***************************************************************************)
Abs(i) == IF i < 0 THEN -i ELSE i

\* n/d, d > 0, is held exactly by f64
RatioRepresentable(n, d) == IsPowerOfTwo(d \div Gcd(Abs(n), d))

\* the fold of a flat s as n/d: ok is FALSE if a Divide meets a zero, rep is
\* TRUE if every value on the way is representable
RECURSIVE RatFold(_)
RatFold(s) ==
    LET j == LastOperandStart(s)
        z == PositionalSum(SubSeq(s, j, Len(s)), 1)
    IN  IF j = 1 THEN [ok |-> TRUE, n |-> z, d |-> 1, rep |-> TRUE]
        ELSE LET l == RatFold(SubSeq(s, 1, j - 2))
                 c == s[j - 1]
                 n == CASE c = "a" -> l.n + z * l.d
                        [] c = "b" -> l.n - z * l.d
                        [] c = "c" -> l.n * z
                        [] c = "d" -> l.n
                 d == IF c = "d" /\ z # 0 THEN l.d * z ELSE l.d
             IN  [ok  |-> l.ok /\ ~(c = "d" /\ z = 0),
                  n   |-> n,
                  d   |-> d,
                  rep |-> l.rep /\ RatioRepresentable(n, d)]

C11_TrueQuotient ==
    (Returned /\ IsFlat(expr) /\ "d" \in Range(expr)
        /\ RatFold(expr).ok /\ RatFold(expr).rep)
        => /\ result.kind = "Ok"
           /\ Signed(result.val) * RatFold(expr).d
                 = RatFold(expr).n * result.val.den

\* a quotient with a fractional part, carried into a later addition
C11_Witness ==
    /\ IsFlat(expr)
    /\ Len(expr) >= 7
    /\ expr[Len(expr) - 1] = "a"
    /\ RatFold(expr).ok /\ RatFold(expr).rep
    /\ result = Ok(F64(FALSE, 17, 4))

(***************************************************************************)
(* C12.  In the group extractor a close marker f that lowers the nesting   *)
(* counter to a value still above 0 is appended to the inner text, the     *)
(* final closer is not.  As stated it fails: parse_group appends no f at   *)
(* all; it lowers the counter and leaves the inner text as it was.         *)
(***************************************************************************)
\* the calls of parse_group made for the group opened at the cursor
CallsAtCursor == parse_group_calls(expr, iter + 1, 1, <<>>)

AtGroup == result = Running /\ Peek = "e"

Applies ==
    operator # "None" /\ IsSome(operands[1]) /\ IsSome(operands[2])

AtDigit == result = Running /\ Peek \in DigitChars

C13_DigitKeepsFirst ==
    [][(AtDigit /\ ~Applies) =>
          LET v == Decimal(SubSeq(expr, iter, iter' - 1))
          IN  /\ result' = Running
              /\ IF IsSome(operands[1])
                 THEN operands' = <<operands[1], Some(v)>>
                 ELSE operands' = <<Some(v), None>>]_vars

(***************************************************************************)
(* C14.  In the digit transition with a pending operator and both slots    *)
(* full (a literal right after a group), the pending operator is applied   *)
(* to (first, second) giving r, then first = r and second = the literal,   *)
(* and the pending operator stays, so that it is applied once more at the  *)
(* next operator letter or at the end: n0 o e n1 f n2 is (n0 o n1) o n2.   *)
(***************************************************************************)
LetterOf(op) ==
    CASE op = "Add" -> "a"
      [] op = "Subtract" -> "b"
      [] op = "Multiply" -> "c"
      [] op = "Divide" -> "d"

\* what applying the pending operator to the two slots gives
PendingResult ==
    Apply(LetterOf(operator), Unwrap(operands[1]), Unwrap(operands[2]))

\* expr is digit, operator letter, e digit f, digit
LiteralAfterGroup ==
    /\ Len(expr) = 6
    /\ {expr[1], expr[4], expr[6]} \subseteq DigitChars
    /\ expr[2] \in OperatorChars
    /\ expr[3] = "e"
    /\ expr[5] = "f"

AtOperator == result = Running /\ Peek \in OperatorChars

NotMarker(c) == c \notin {"e", "f"}

\* the text between the opening marker at from - 1 and the closing marker
\* at to + 1, markers left out
TextBetween(from, to) == SelectSeq(SubSeq(expr, from, to), NotMarker)

\* expr is digit, operator letter, digit, e digit f
GroupAfterLiteral ==
    /\ Len(expr) = 6
    /\ {expr[1], expr[3], expr[5]} \subseteq DigitChars
    /\ expr[2] \in OperatorChars
    /\ expr[4] = "e"
    /\ expr[6] = "f"

C16_GroupTransition ==
    /\ [][AtGroup =>
            LET v == evaluate(TextBetween(iter + 1, iter' - 2))
            IN  IF result' = Running
                THEN /\ v.kind = "Ok"
                     /\ operator' = operator
                     /\ operands' = IF IsSome(operands[1])
                                    THEN <<operands[1], Some(v.val)>>
                                    ELSE <<Some(v.val), None>>
                ELSE /\ operands' = operands
                     /\ operator' = operator
                     /\ \/ result' = Err("InvalidBlock")
                        \/ result'.kind = "Err" /\ result' = v]_vars
    \* the overwritten second operand is never used
    /\ []((Returned /\ GroupAfterLiteral) =>
            result = Apply(expr[2], Decimal(<<expr[1]>>), Decimal(<<expr[5]>>)))

\* 4 d 0 (4): the group overwrote the 0 and the result is 4 / 4
C16_Witness ==
    /\ expr = <<"4", "d", "0", "e", "4", "f">>
    /\ operator = "Divide"
    /\ operands = <<Some(FromInt(4)), Some(FromInt(4))>>
    /\ result = Ok(FromInt(1))

(***************************************************************************)
(* C17.  At end of input the pending operator is applied only if an        *)
(* operator is pending and both slots are full; in every other state with  *)
(* a populated first slot the first slot's value is returned without       *)
(* error: a trailing operator with no right operand returns the            *)
(* accumulated value, a second operand with no pending operator is         *)
(* discarded.                                                              *)
(***************************************************************************)
AtEndOfInput == result = Running /\ iter = Len(expr) + 1

C17_EndOfInput ==
    /\ [][AtEndOfInput =>
            /\ Applies => result' = PendingResult
            /\ (~Applies /\ IsSome(operands[1])) => result' = Ok(Unwrap(operands[1]))
            /\ operands' = operands
            /\ operator' = operator
            /\ iter' = iter]_vars
    \* digit, letter
    /\ []((Returned /\ Len(expr) = 2 /\ expr[1] \in DigitChars
             /\ expr[2] \in OperatorChars)
            => result = Ok(Decimal(<<expr[1]>>)))
    \* digit, e digit f
    /\ []((Returned /\ Len(expr) = 4 /\ {expr[1], expr[3]} \subseteq DigitChars
             /\ expr[2] = "e" /\ expr[4] = "f")
            => result = Ok(Decimal(<<expr[1]>>)))

\* 4 (0) has returned 4: the second operand 0 was discarded
C17_Witness ==
    /\ expr = <<"4", "e", "0", "f">>
    /\ operator = "None"
    /\ operands = <<Some(FromInt(4)), Some(PosZero)>>
    /\ result = Ok(FromInt(4))

(***************************************************************************)
(* C18.  The group extractor, started with counter 1 right after an e was  *)
(* consumed, keeps the counter equal to 1 + (e consumed) - (f consumed)    *)
(* and never below 1; it returns exactly at the first f at which the       *)
(* consumed f outnumber the consumed e, consuming that f and leaving every *)
(* later character to the driver; the characters it appends keep their     *)
(* input order.                                                            *)
(***************************************************************************)
\* what the extractor has consumed when it makes its k-th call
ConsumedBefore(k) == SubSeq(expr, iter + 1, iter + k - 1)

\* position j holds an f with which the f since the opening marker come to
\* outnumber the e
Closes(j) ==
    /\ expr[j] = "f"
    /\ Count(SubSeq(expr, iter + 1, j), "f") > Count(SubSeq(expr, iter + 1, j), "e")

ClosingPositions == {j \in (iter + 1)..Len(expr) : Closes(j)}

FirstClosing == CHOOSE j \in ClosingPositions : \A i \in ClosingPositions : j <= i

C18_ExtractorCounter ==
    /\ [](AtGroup =>
            /\ \A k \in 1..Len(CallsAtCursor) :
                 /\ CallsAtCursor[k].it = iter + k
                 /\ CallsAtCursor[k].count
                       = 1 + Count(ConsumedBefore(k), "e") - Count(ConsumedBefore(k), "f")
                 /\ CallsAtCursor[k].count >= 1
                 /\ CallsAtCursor[k].inner = SelectSeq(ConsumedBefore(k), NotMarker)
            /\ LET g == parse_group(expr, iter + 1, 1, <<>>)
               IN  IF ClosingPositions = {}
                   THEN ~g.ok
                   ELSE /\ g.ok
                        /\ g.it = FirstClosing + 1
                        /\ g.inner = TextBetween(iter + 1, FirstClosing - 1))
    /\ [][(AtGroup /\ result' = Running) => iter' = FirstClosing + 1]_vars

\* ((4))4: the extractor returned at the second f and left the last 4
C18_Witness ==
    /\ expr = <<"e", "e", "4", "f", "f", "4">>
    /\ iter = 6
    /\ operands = <<Some(FromInt(4)), None>>
    /\ result = Running

(***************************************************************************)
(* C19.  The inner text that the group extractor hands to the recursive    *)
(* evaluate never contains e or f, so a recursive evaluation never opens a *)
(* group: the call depth of evaluate is at most 2 for every input,         *)
(* whatever its bracket nesting, and a recursive evaluation never returns  *)
(* InvalidBlock.                                                           *)
(***************************************************************************)
HandedInner == parse_group(expr, iter + 1, 1, <<>>)

C19_RecursionDepth ==
    \* expr never changes: the depth is looked at when the run starts
    /\ []((iter = 1 /\ result = Running) => evaluate_depth(expr) <= 2)
    /\ []((AtGroup /\ HandedInner.ok) =>
            /\ Range(HandedInner.inner) \cap {"e", "f"} = {}
            /\ evaluate(HandedInner.inner) # Err("InvalidBlock")
            /\ evaluate_depth(HandedInner.inner) = 1)
    \* a group step fails with InvalidBlock only for want of a closing marker
    /\ [][(AtGroup /\ result' = Err("InvalidBlock")) => ~HandedInner.ok]_vars

\* (((4))) is nested three deep and was evaluated with two calls of evaluate
C19_Witness ==
    /\ expr = <<"e", "e", "e", "4", "f", "f", "f">>
    /\ NestDepth(expr, 1, 0) = 3
    /\ evaluate_depth(expr) = 2
    /\ result = Ok(FromInt(4))

(***************************************************************************)
(* C20.  In every reachable driver state a populated second slot implies a *)
(* populated first slot (the pair is never (empty, full)), and the         *)
(* operator function is invoked only in states where an operator is        *)
(* pending and both slots are populated: a step from any other state shows *)
(* no application, its error is not the operator function's, its returned  *)
(* value is the first slot, and every slot it leaves holds an old slot     *)
(* value or the value read at this step.                                   *)
(***************************************************************************)
C20_SlotsInvariant ==
    /\ [](IsSome(operands[2]) => IsSome(operands[1]))
    /\ [][(result = Running /\ ~Applies) =>
            LET inner == evaluate(TextBetween(iter + 1, iter' - 2))
                read  == IF Peek \in DigitChars
                         THEN {Some(Decimal(SubSeq(expr, iter, iter' - 1)))}
                         ELSE IF Peek = "e" /\ inner.kind = "Ok"
                         THEN {Some(inner.val)}
                         ELSE {}
            IN  /\ result' = Err("DivisionByZero")
                      => (Peek = "e" /\ inner = Err("DivisionByZero"))
                /\ result'.kind = "Ok"
                      => (IsSome(operands[1]) /\ result' = Ok(Unwrap(operands[1])))
                /\ result' = Running
                      => \A i \in 1..2 :
                           operands'[i] \in {None, operands[1], operands[2]} \cup read]_vars

\* 4 a 4: both slots were full with Add pending when the sum was returned
C20_Witness ==
    /\ expr = <<"4", "a", "4">>
    /\ operator = "Add"
    /\ operands = <<Some(FromInt(4)), Some(FromInt(4))>>
    /\ result = Ok(FromInt(8))

====
